---- MODULE Spec2Model ----
(***************************************************************************)
(* The Streamlit page Rheology_Parameters_Streamlit_app.py as a state      *)
(* machine.  The script runs from its first line to its last (or to        *)
(* st.stop()) once when the page is opened and once more after every       *)
(* interaction with a widget; one such run is a pass.  Widget values and   *)
(* the artifacts on disk outlive a pass, every name the script binds is    *)
(* bound again in each pass.                                               *)
(*                                                                         *)
(* A number the user types is kept as the typed decimal in hundredths      *)
(* (50.0 is 5000, 0.45 is 45).  Python holds it as the nearest IEEE-754    *)
(* double; ToFloat, FloatAdd and FloatLeq compute on the bits of that      *)
(* double, so that the sum and the comparisons are the ones Python makes.  *)
(***************************************************************************)
EXTENDS Integers, Sequences, FiniteSets, TLC

\* bounds of the model
MaxChanges == 2     \* widget edits in one behaviour
MaxClicks == 2      \* presses of the predict button in one behaviour
IntBits == 9        \* binary places kept left of the point (values below 512)
FracBits == 64      \* binary places kept right of the point

\* significand width of a Python float
Precision == 53

----------------------------------------------------------------------------
(* Python float arithmetic on non-negative values.  A float is the string  *)
(* of its bits in fixed point, most significant first: IntBits places,     *)
(* then FracBits places.                                                   *)

Width == IntBits + FracBits
Places == 1..Width

\* 2^j modulo 100; from j = 2 on the residues repeat with period 20
Pow2Mod100(j) == IF j < 22 THEN (2 ^ j) % 100 ELSE (2 ^ (2 + ((j - 2) % 20))) % 100

\* the remainder of the long division of r by 100 after j binary places
Rem(r, j) == IF j = 0 THEN r ELSE (r * Pow2Mod100(j)) % 100

\* the exact binary expansion of k/100, cut after FracBits places
Expand(k) ==
    SubSeq([i \in Places |->
              IF i <= IntBits THEN ((k \div 100) \div (2 ^ (IntBits - i))) % 2
              ELSE (2 * Rem(k % 100, i - IntBits - 1)) \div 100], 1, Width)

\* the carry into place i of a + b: generated at a lower place j and
\* propagated through every place between
Carry(a, b, i) ==
    IF \E j \in (i + 1)..Width :
          /\ a[j] = 1 /\ b[j] = 1
          /\ \A k \in (i + 1)..(j - 1) : a[k] # b[k]
    THEN 1 ELSE 0

\* the place of the leading 1 of x, 0 when x is zero
Msb(x) == IF \E i \in Places : x[i] = 1
          THEN CHOOSE i \in Places : x[i] = 1 /\ \A j \in 1..(i - 1) : x[j] = 0
          ELSE 0

\* round-half-to-even to Precision significant bits; sticky = 1 when bits
\* below the last place of x were cut off
Round(x, sticky) ==
    LET m == Msb(x)
        last == m + Precision - 1
    IN  IF m = 0 \/ last >= Width THEN x
        ELSE LET guard == x[last + 1]
                 rest == sticky = 1 \/ \E j \in (last + 2)..Width : x[j] = 1
                 up == guard = 1 /\ (rest \/ x[last] = 1)
             IN  SubSeq([i \in Places |->
                           IF i > last THEN 0
                           ELSE IF up /\ \A j \in (i + 1)..last : x[j] = 1
                                THEN 1 - x[i] ELSE x[i]], 1, Width)

\* the float Python holds for the decimal k/100
ToFloat(k) == Round(Expand(k), IF Rem(k % 100, FracBits) = 0 THEN 0 ELSE 1)

\* a + b on floats
FloatAdd(a, b) ==
    Round(SubSeq([i \in Places |-> (a[i] + b[i] + Carry(a, b, i)) % 2], 1, Width), 0)

\* a <= b on floats
FloatLeq(a, b) ==
    \/ a = b
    \/ \E i \in Places : a[i] < b[i] /\ \A j \in 1..(i - 1) : a[j] = b[j]

----------------------------------------------------------------------------
(* The form, the recommended ranges and the model artifacts.               *)

feature_names ==
    <<"OPC (%)", "CC (%)", "LP (%)", "NC (%)", "GYP (%)", "S/B", "W/B", "SP (%)", "Time">>

Fields == {feature_names[i] : i \in 1..8}

\* value= of the eight number_input widgets
Defaults ==
    [f \in Fields |->
        CASE f = "OPC (%)" -> 5000 [] f = "CC (%)" -> 2000 [] f = "LP (%)" -> 1000
          [] f = "NC (%)" -> 200 [] f = "GYP (%)" -> 200 [] f = "S/B" -> 100
          [] f = "W/B" -> 45 [] f = "SP (%)" -> 100]

\* the dict ranges in insertion order: (low, high) of each parameter
ranges ==
    << [param |-> "OPC (%)", low |-> 4000, high |-> 10000],
       [param |-> "CC (%)", low |-> 0, high |-> 4300],
       [param |-> "LP (%)", low |-> 0, high |-> 2300],
       [param |-> "NC (%)", low |-> 0, high |-> 500],
       [param |-> "GYP (%)", low |-> 0, high |-> 300],
       [param |-> "S/B", low |-> 50, high |-> 250],
       [param |-> "W/B", low |-> 40, high |-> 55],
       [param |-> "SP (%)", low |-> 50, high |-> 250] >>

\* what the user types into a widget in the workflow specification; the
\* widgets refuse values below min_value = 0.0
Choices ==
    [f \in Fields |->
        CASE f = "OPC (%)" -> {5000, 6800}
          [] f = "CC (%)" -> {2000, 3800, 3790, 3810, 3201}
          [] f = "LP (%)" -> {1000, 2800, 1599}
          [] f = "NC (%)" -> {200, 600}
          [] f = "GYP (%)" -> {200, 300}
          [] f = "S/B" -> {100, 251}
          [] f = "W/B" -> {45, 55, 56}
          [] f = "SP (%)" -> {100, 49}]

\* what the user has typed in the range-check specification: every bound,
\* a value inside and the nearest values outside
Probes ==
    [f \in Fields |->
        CASE f = "OPC (%)" -> {}
          [] f = "CC (%)" -> {0, 2000, 4300, 4301}
          [] f = "LP (%)" -> {0, 1400, 2300, 2301}
          [] f = "NC (%)" -> {0, 200, 500, 501}
          [] f = "GYP (%)" -> {0, 200, 300, 301}
          [] f = "S/B" -> {49, 50, 100, 250, 251}
          [] f = "W/B" -> {39, 40, 45, 55, 56}
          [] f = "SP (%)" -> {49, 50, 100, 250, 251}]

\* the binder fields of a mix, in the order they are summed
Binder(m) == <<m["OPC (%)"], m["CC (%)"], m["LP (%)"], m["GYP (%)"]>>

\* the binder fields the two specifications can hold: the typed choices, and
\* the probes with the OPC that completes them to 100
BinderTuples ==
    (Choices["OPC (%)"] \X Choices["CC (%)"] \X Choices["LP (%)"] \X Choices["GYP (%)"])
    \cup {<<10000 - (c + l + g), c, l, g>> :
            <<c, l, g>> \in {t \in Probes["CC (%)"] \X Probes["LP (%)"] \X Probes["GYP (%)"] :
                               t[1] + t[2] + t[3] <= 10000}}

\* every decimal a float is made of: typed values and the literals of the script
Decimals ==
    UNION {Choices[f] \cup Probes[f] : f \in Fields}
    \cup {t[1] : t \in BinderTuples}
    \cup {ranges[i].low : i \in 1..8} \cup {ranges[i].high : i \in 1..8} \cup {10000}

\* the float of each decimal, computed once
Float == [k \in Decimals |-> ToFloat(k)]

\* opc + cc + lp + gyp, evaluated left to right
FloatSum(t) == FloatAdd(FloatAdd(FloatAdd(Float[t[1]], Float[t[2]]), Float[t[3]]), Float[t[4]])

\* the sum of each binder tuple, computed once
BinderSums == [t \in BinderTuples |-> FloatSum(t)]

binder_sum(m) == BinderSums[Binder(m)]

\* a binder check that lets a sum within 0.1 of 100 pass
BinderOKTolerant(m) ==
    LET total == m["OPC (%)"] + m["CC (%)"] + m["LP (%)"] + m["GYP (%)"]
    IN  total >= 9990 /\ total <= 10010

\* binder_sum != 100 is false
BinderOK(m) == binder_sum(m) = Float[10000]

\* a range test that excludes the lower bound
InRangeStrict(low, val, high) ==
    /\ FloatLeq(Float[low], Float[val]) /\ Float[low] # Float[val]
    /\ FloatLeq(Float[val], Float[high])

\* low <= val <= high
InRange(low, val, high) == FloatLeq(Float[low], Float[val]) /\ FloatLeq(Float[val], Float[high])

\* the loop that fills out_of_range: one entry, in dict order, for each
\* parameter whose value fails low <= val <= high
OutOfRange(m) ==
    LET bad == {i \in 1..8 : ~InRange(ranges[i].low, m[ranges[i].param], ranges[i].high)}
        \* the i-th smallest element of bad
        nth(i) == CHOOSE j \in bad : Cardinality({k \in bad : k < j}) = i - 1
    IN  [i \in 1..Cardinality(bad) |->
            [param |-> ranges[nth(i)].param, val |-> m[ranges[nth(i)].param],
             low |-> ranges[nth(i)].low, high |-> ranges[nth(i)].high]]

\* the three models, in the order they are loaded and invoked
ModelNames == <<"SYS", "DYS", "PV">>
Targets == {ModelNames[i] : i \in 1..3}
Path(m) == CASE m = "SYS" -> "GUI_SYS.joblib" [] m = "DYS" -> "GUI_DYS.joblib"
             [] m = "PV" -> "GUI_PV.joblib"

\* the time indicators and their labels: zip([0, 1], ["10 min", "30 min"])
TimeVals == <<0, 1>>
Labels == <<"10 min", "30 min">>

\* a model artifact: absent (or unreadable), or a regressor; a regressor is
\* a fixed function of the feature vector that raises on the time
\* indicators in raisesOn
Artifacts ==
    [present : {TRUE}, raisesOn : {{}, {0}, {1}}] \cup [present : {FALSE}, raisesOn : {{}}]

None == [present |-> FALSE, raisesOn |-> {}]

\* truth value of a bound model: None is false, a loaded regressor is true
Truthy(obj) == obj.present

\* model.predict(input_data) raises
Raises(obj, X) == X[9] \in obj.raisesOn

\* model.predict(input_data)[0] of the regressor for target m
Predict(m, X) ==
    LET w == CASE m = "SYS" -> 3 [] m = "DYS" -> 2 [] m = "PV" -> 1
    IN  (w * (X[1] + X[2] + X[3] + X[5]) + X[4] + X[6] + X[7] + X[8] + 1000 * w * X[9]) % 100000

\* input_values with the nanoclay and gypsum entries in each other's place
input_values_swapped(m, time_val) ==
    <<m["OPC (%)"], m["CC (%)"], m["LP (%)"], m["GYP (%)"], m["NC (%)"],
      m["S/B"], m["W/B"], m["SP (%)"], time_val>>

\* input_values = [opc, cc, lp, nc, gyp, sb, wb, sp, time_val]
input_values(m, time_val) ==
    <<m["OPC (%)"], m["CC (%)"], m["LP (%)"], m["NC (%)"], m["GYP (%)"],
      m["S/B"], m["W/B"], m["SP (%)"], time_val>>

----------------------------------------------------------------------------
(* State.                                                                  *)

VARIABLES
    disk,         \* the artifact behind each path
    mix,          \* the values held by the eight widgets, typed hundredths
    predict_btn,  \* what st.button returns in the current pass
    pc,           \* the statement the current pass is at, "idle" between passes
    model,        \* model_SYS, model_DYS, model_PV as bound in the current pass
    page,         \* what the current pass has put on the page
    vectors,      \* every input_values built in the current pass
    calls,        \* every model.predict call made in the current pass
    results,      \* the list results of the current pass
    turn,         \* position of the prediction loop in zip([0, 1], [...])
    loads,        \* joblib.load calls per artifact since the process started
    changes,      \* widget edits so far
    clicks,       \* presses of the predict button so far
    runs          \* the predict runs completed so far: mix, vectors, results

vars == <<disk, mix, predict_btn, pc, model, page, vectors, calls, results, turn,
          loads, changes, clicks, runs>>

\* a page nothing has been written to
Blank ==
    [errors |-> <<>>, binder |-> "", out_of_range |-> <<>>, ranges |-> "",
     button |-> FALSE, tables |-> 0, table |-> <<>>, charts |-> 0, footer |-> FALSE,
     stopped |-> FALSE]

Error(kind, about) == [kind |-> kind, about |-> about]

Init ==
    /\ disk \in [Targets -> Artifacts]
    /\ mix = Defaults
    /\ predict_btn = FALSE
    /\ pc = "idle"
    /\ model = [m \in Targets |-> None]
    /\ page = Blank
    /\ vectors = <<>>
    /\ calls = <<>>
    /\ results = <<>>
    /\ turn = 1
    /\ loads = [m \in Targets |-> 0]
    /\ changes = 0
    /\ clicks = 0
    /\ runs = <<>>

----------------------------------------------------------------------------
(* What starts a pass.                                                     *)

\* a rerun in which the list of results outlives the pass
RerunKeepResults ==
    /\ pc' = "load_SYS"
    /\ model' = [m \in Targets |-> None]
    /\ page' = Blank
    /\ vectors' = <<>>
    /\ calls' = <<>>
    /\ turn' = 1
    /\ UNCHANGED <<disk, loads, runs, results>>

\* the script starts over: nothing of the previous pass is kept
Rerun ==
    /\ pc' = "load_SYS"
    /\ model' = [m \in Targets |-> None]
    /\ page' = Blank
    /\ vectors' = <<>>
    /\ calls' = <<>>
    /\ results' = <<>>
    /\ turn' = 1
    /\ UNCHANGED <<disk, loads, runs>>

Opened == \E m \in Targets : loads[m] > 0

\* the browser opens the page
OpenPage ==
    /\ pc = "idle" /\ ~Opened
    /\ predict_btn' = FALSE
    /\ UNCHANGED <<mix, changes, clicks>>
    /\ Rerun

\* the user types v into the widget of field f
ChangeInput(f, v) ==
    /\ pc = "idle" /\ Opened
    /\ changes < MaxChanges
    /\ v # mix[f]
    /\ mix' = [mix EXCEPT ![f] = v]
    /\ changes' = changes + 1
    /\ predict_btn' = FALSE
    /\ UNCHANGED clicks
    /\ Rerun

\* the user presses the button the previous pass has drawn
ClickPredict ==
    /\ pc = "idle" /\ page.button
    /\ clicks < MaxClicks
    /\ clicks' = clicks + 1
    /\ predict_btn' = TRUE
    /\ UNCHANGED <<mix, changes>>
    /\ Rerun

----------------------------------------------------------------------------
(* The statements of a pass.                                               *)

LoadPc(m) == CASE m = "SYS" -> "load_SYS" [] m = "DYS" -> "load_DYS" [] m = "PV" -> "load_PV"
AfterLoad(m) == CASE m = "SYS" -> "load_DYS" [] m = "DYS" -> "load_PV" [] m = "PV" -> "binder"

\* a loader without the handler: the exception of joblib.load ends the pass
load_model_raising(m) ==
    /\ pc = LoadPc(m)
    /\ loads' = [loads EXCEPT ![m] = @ + 1]
    /\ IF disk[m].present
       THEN /\ model' = [model EXCEPT ![m] = disk[m]]
            /\ UNCHANGED page
            /\ pc' = AfterLoad(m)
       ELSE /\ UNCHANGED model
            /\ page' = [page EXCEPT !.errors = Append(@, Error("load", Path(m))),
                                    !.stopped = TRUE]
            /\ pc' = "idle"
    /\ UNCHANGED <<disk, mix, predict_btn, vectors, calls, results, turn, changes, clicks, runs>>

\* model_m = load_model(path): joblib.load raises on an absent artifact,
\* the handler reports it and returns None
load_model(m) ==
    /\ pc = LoadPc(m)
    /\ loads' = [loads EXCEPT ![m] = @ + 1]
    /\ IF disk[m].present
       THEN /\ model' = [model EXCEPT ![m] = disk[m]]
            /\ UNCHANGED page
       ELSE /\ model' = [model EXCEPT ![m] = None]
            /\ page' = [page EXCEPT !.errors = Append(@, Error("load", Path(m)))]
    /\ pc' = AfterLoad(m)
    /\ UNCHANGED <<disk, mix, predict_btn, vectors, calls, results, turn, changes, clicks, runs>>

\* Step 2, first half: the binder sum; st.stop() ends the pass
CheckBinderSum ==
    /\ pc = "binder"
    /\ IF ~BinderOK(mix)
       THEN /\ page' = [page EXCEPT !.errors = Append(@, Error("binder", "")),
                                    !.stopped = TRUE]
            /\ pc' = "idle"
       ELSE /\ page' = [page EXCEPT !.binder = "passed"]
            /\ pc' = "ranges"
    /\ UNCHANGED <<disk, mix, predict_btn, model, vectors, calls, results, turn,
                   loads, changes, clicks, runs>>

\* a range check that stops the pass on a value out of range
CheckRangesBlocking ==
    /\ pc = "ranges"
    /\ LET out_of_range == OutOfRange(mix)
       IN  IF out_of_range # <<>>
           THEN /\ page' = [page EXCEPT !.out_of_range = out_of_range,
                                        !.ranges = "warning", !.stopped = TRUE]
                /\ pc' = "idle"
           ELSE /\ page' = [page EXCEPT !.ranges = "success"]
                /\ pc' = "gate"
    /\ UNCHANGED <<disk, mix, predict_btn, model, vectors, calls, results, turn,
                   loads, changes, clicks, runs>>

\* Step 2, second half: the recommended ranges
CheckRanges ==
    /\ pc = "ranges"
    /\ LET out_of_range == OutOfRange(mix)
       IN  page' = [page EXCEPT !.out_of_range = out_of_range,
                                !.ranges = IF out_of_range # <<>> THEN "warning"
                                           ELSE "success"]
    /\ pc' = "gate"
    /\ UNCHANGED <<disk, mix, predict_btn, model, vectors, calls, results, turn,
                   loads, changes, clicks, runs>>

\* a gate that is content with one bound model
GateAny ==
    /\ pc = "gate"
    /\ IF \E m \in Targets : Truthy(model[m])
       THEN /\ page' = [page EXCEPT !.button = TRUE]
            /\ pc' = IF predict_btn THEN "loop" ELSE "footer"
       ELSE /\ page' = [page EXCEPT !.errors = Append(@, Error("models", ""))]
            /\ pc' = "footer"
    /\ UNCHANGED <<disk, mix, predict_btn, model, vectors, calls, results, turn,
                   loads, changes, clicks, runs>>

\* a gate that predicts in every pass, pressed or not
GateAlways ==
    /\ pc = "gate"
    /\ IF \A m \in Targets : Truthy(model[m])
       THEN /\ page' = [page EXCEPT !.button = TRUE]
            /\ pc' = "loop"
       ELSE /\ page' = [page EXCEPT !.errors = Append(@, Error("models", ""))]
            /\ pc' = "footer"
    /\ UNCHANGED <<disk, mix, predict_btn, model, vectors, calls, results, turn,
                   loads, changes, clicks, runs>>

\* Step 3: the button is drawn when the three models are bound; its handler
\* runs in the pass its press has started
Gate ==
    /\ pc = "gate"
    /\ IF \A m \in Targets : Truthy(model[m])
       THEN /\ page' = [page EXCEPT !.button = TRUE]
            /\ pc' = IF predict_btn THEN "loop" ELSE "footer"
       ELSE /\ page' = [page EXCEPT !.errors = Append(@, Error("models", ""))]
            /\ pc' = "footer"
    /\ UNCHANGED <<disk, mix, predict_btn, model, vectors, calls, results, turn,
                   loads, changes, clicks, runs>>

\* the models called for the vector X, in order, up to the first that raises
Invoked(X) ==
    LET failing == {j \in 1..3 : Raises(model[ModelNames[j]], X)}
        upto == IF failing = {} THEN 3
                ELSE CHOOSE j \in failing : \A k \in failing : j <= k
    IN  [j \in 1..upto |-> <<ModelNames[j], X[9]>>]

\* a loop without the handler: the first exception ends the pass
PredictRowAbort ==
    /\ pc = "loop"
    /\ LET time_val == TimeVals[turn]
           label == Labels[turn]
           X == input_values(mix, time_val)
       IN  /\ vectors' = Append(vectors, X)
           /\ calls' = calls \o Invoked(X)
           /\ IF \E m \in Targets : Raises(model[m], X)
              THEN /\ page' = [page EXCEPT !.errors = Append(@, Error("predict", label)),
                                           !.stopped = TRUE]
                   /\ UNCHANGED <<results, turn>>
                   /\ pc' = "idle"
              ELSE /\ results' = Append(results, <<label, Predict("SYS", X),
                                                   Predict("DYS", X), Predict("PV", X)>>)
                   /\ UNCHANGED page
                   /\ IF turn < Len(TimeVals)
                      THEN turn' = turn + 1 /\ pc' = "loop"
                      ELSE turn' = turn /\ pc' = "present"
    /\ UNCHANGED <<disk, mix, predict_btn, model, loads, changes, clicks, runs>>

\* one turn of the prediction loop
PredictRow ==
    /\ pc = "loop"
    /\ LET time_val == TimeVals[turn]
           label == Labels[turn]
           X == input_values(mix, time_val)
       IN  /\ vectors' = Append(vectors, X)
           /\ calls' = calls \o Invoked(X)
           /\ IF \E m \in Targets : Raises(model[m], X)
              THEN /\ page' = [page EXCEPT !.errors = Append(@, Error("predict", label))]
                   /\ UNCHANGED results
              ELSE /\ results' = Append(results, <<label, Predict("SYS", X),
                                                   Predict("DYS", X), Predict("PV", X)>>)
                   /\ UNCHANGED page
    /\ IF turn < Len(TimeVals)
       THEN turn' = turn + 1 /\ pc' = "loop"
       ELSE turn' = turn /\ pc' = "present"
    /\ UNCHANGED <<disk, mix, predict_btn, model, loads, changes, clicks, runs>>

\* if results: the table, one line per row, and the two charts
Present ==
    /\ pc = "present"
    /\ IF results # <<>>
       THEN page' = [page EXCEPT !.tables = @ + 1,
                                 !.table = [r \in 1..Len(results) |-> results[r][1]],
                                 !.charts = @ + 2]
       ELSE UNCHANGED page
    /\ pc' = "footer"
    /\ UNCHANGED <<disk, mix, predict_btn, model, vectors, calls, results, turn,
                   loads, changes, clicks, runs>>

\* the last statement of the script
Footer ==
    /\ pc = "footer"
    /\ page' = [page EXCEPT !.footer = TRUE]
    /\ runs' = IF predict_btn
               THEN Append(runs, [mix |-> mix, vectors |-> vectors, results |-> results])
               ELSE runs
    /\ pc' = "idle"
    /\ UNCHANGED <<disk, mix, predict_btn, model, vectors, calls, results, turn,
                   loads, changes, clicks>>

Next ==
    \/ OpenPage
    \/ \E f \in Fields : \E v \in Choices[f] : ChangeInput(f, v)
    \/ ClickPredict
    \/ \E m \in Targets : load_model(m)
    \/ CheckBinderSum
    \/ CheckRanges
    \/ Gate
    \/ PredictRow
    \/ Present
    \/ Footer

Spec == Init /\ [][Next]_vars

----------------------------------------------------------------------------
(* The range check on its own: every pass that has reached the range       *)
(* check, for every probe of every field.                                  *)

MixOf(opc, cc, lp, nc, gyp, sb, wb, sp) ==
    [f \in Fields |->
        CASE f = "OPC (%)" -> opc [] f = "CC (%)" -> cc [] f = "LP (%)" -> lp
          [] f = "NC (%)" -> nc [] f = "GYP (%)" -> gyp [] f = "S/B" -> sb
          [] f = "W/B" -> wb [] f = "SP (%)" -> sp]

InitRanges ==
    /\ disk = [m \in Targets |-> [present |-> TRUE, raisesOn |-> {}]]
    /\ \E cc \in Probes["CC (%)"], lp \in Probes["LP (%)"], gyp \in Probes["GYP (%)"] :
          /\ cc + lp + gyp <= 10000
          /\ BinderSums[<<10000 - (cc + lp + gyp), cc, lp, gyp>>] = Float[10000]
          /\ \E nc \in Probes["NC (%)"], sb \in Probes["S/B"], wb \in Probes["W/B"],
                sp \in Probes["SP (%)"] :
                mix = MixOf(10000 - (cc + lp + gyp), cc, lp, nc, gyp, sb, wb, sp)
    /\ predict_btn = FALSE
    /\ pc = "ranges"
    /\ model = disk
    /\ page = [Blank EXCEPT !.binder = "passed"]
    /\ vectors = <<>>
    /\ calls = <<>>
    /\ results = <<>>
    /\ turn = 1
    /\ loads = [m \in Targets |-> 1]
    /\ changes = 0
    /\ clicks = 0
    /\ runs = <<>>

NextRanges == CheckRanges

SpecRanges == InitRanges /\ [][NextRanges]_vars

----------------------------------------------------------------------------
(* Properties.                                                             *)

\* how often e occurs in the sequence seq
Count(seq, e) == Cardinality({n \in 1..Len(seq) : seq[n] = e})

\* a pass has started and has ended, by st.stop() or at the last statement
Done == pc = "idle" /\ Opened

\* the current or last pass has executed the binder check
PastBinder == pc \in {"ranges", "gate", "loop", "present", "footer"} \/ Done

\* the current or last pass has executed the range check
PastRanges == pc \in {"gate", "loop", "present", "footer"} \/ (Done /\ page.footer)

\* the current or last pass has executed the model gate
PastGate == pc \in {"loop", "present", "footer"} \/ (Done /\ page.footer)

\* the last pass was started by the button and has run to its last statement
PredictDone == pc = "idle" /\ page.footer /\ predict_btn

\* the float sum of the binder fields is 100
SumIs100 == binder_sum(mix) = Float[10000]

\* the recommended bounds as the specification lists them, in hundredths
ClaimRanges ==
    << <<"OPC (%)", 4000, 10000>>, <<"CC (%)", 0, 4300>>, <<"LP (%)", 0, 2300>>,
       <<"NC (%)", 0, 500>>, <<"GYP (%)", 0, 300>>, <<"S/B", 50, 250>>,
       <<"W/B", 40, 55>>, <<"SP (%)", 50, 250>> >>

\* the typed value of the n-th field lies within its bounds
Within(n) == ClaimRanges[n][2] <= mix[ClaimRanges[n][1]] /\ mix[ClaimRanges[n][1]] <= ClaimRanges[n][3]

\* the feature vector the specification describes for time indicator t
ClaimVector(t) ==
    <<mix["OPC (%)"], mix["CC (%)"], mix["LP (%)"], mix["NC (%)"], mix["GYP (%)"],
      mix["S/B"], mix["W/B"], mix["SP (%)"], t>>

\* the row the specification describes for the n-th time indicator
ClaimRow(n) ==
    <<Labels[n], Predict("SYS", ClaimVector(TimeVals[n])),
      Predict("DYS", ClaimVector(TimeVals[n])), Predict("PV", ClaimVector(TimeVals[n]))>>

\* some model raises on time indicator t
Fails(t) == \E m \in Targets : t \in disk[m].raisesOn

\* C1: once a pass has made the binder check, either the float sum of OPC,
\* CC, LP and GYP is exactly 100, the check has passed and the pass was not
\* stopped, or the sum is anything else and the pass has stopped there with
\* one binder error: no range result, no button, no vector built, no model
\* called, no row, no table, the last statement not reached.
BinderGate ==
    PastBinder =>
        IF SumIs100
        THEN /\ page.binder = "passed"
             /\ ~page.stopped
             /\ Count(page.errors, Error("binder", "")) = 0
        ELSE /\ page.stopped /\ pc = "idle"
             /\ Count(page.errors, Error("binder", "")) = 1
             /\ page.binder = "" /\ page.ranges = "" /\ page.out_of_range = <<>>
             /\ ~page.button
             /\ vectors = <<>> /\ calls = <<>> /\ results = <<>>
             /\ page.tables = 0 /\ page.charts = 0 /\ ~page.footer

\* a pass has stopped at the binder check although the three models were
\* loaded and the typed decimals add up to 100
WitBinderGate ==
    /\ page.stopped /\ \A m \in Targets : Truthy(model[m])
    /\ mix["OPC (%)"] + mix["CC (%)"] + mix["LP (%)"] + mix["GYP (%)"] = 10000

\* C2: when one of the three artifacts is unavailable, no pass draws the
\* button, builds a vector, calls a model, produces a row or a table, and
\* a pass that reaches the gate shows the models error once.
AllOrNothing ==
    (\E m \in Targets : ~disk[m].present) =>
        /\ ~page.button
        /\ vectors = <<>> /\ calls = <<>> /\ results = <<>>
        /\ page.tables = 0 /\ page.charts = 0
        /\ PastGate => Count(page.errors, Error("models", "")) = 1

\* a pass has run to its end past the gate with SYS missing and DYS loaded
WitAllOrNothing ==
    /\ pc = "idle" /\ page.footer
    /\ ~disk["SYS"].present /\ Truthy(model["DYS"])

\* C3: a predict run in which the models raise on exactly one of the two
\* time indicators ends with exactly the row of the other indicator, with
\* its three values, exactly one predict error and that one naming the
\* failing label, both vectors built, and the table and charts presented.
FailureIsolation ==
    (Done /\ predict_btn /\ Fails(0) # Fails(1)) =>
        LET bad == IF Fails(0) THEN 1 ELSE 2
            good == 3 - bad
        IN  /\ page.footer /\ ~page.stopped
            /\ results = <<ClaimRow(good)>>
            /\ Count(page.errors, Error("predict", Labels[bad])) = 1
            /\ Count(page.errors, Error("predict", Labels[good])) = 0
            /\ vectors = <<ClaimVector(0), ClaimVector(1)>>
            /\ page.tables = 1 /\ page.table = <<Labels[good]>> /\ page.charts = 2

\* a predict run has ended with one row after PV raised on indicator 0
WitFailureIsolation ==
    PredictDone /\ 0 \in disk["PV"].raisesOn /\ Len(results) = 1

\* C4: a predict run in which no model raises ends with the two rows
\* "10 min" and "30 min" in this order, each with the three predictions for
\* its vector; the two vectors hold OPC, CC, LP, NC, GYP, S/B, W/B, SP in
\* this order and then 0 for "10 min" and 1 for "30 min".
RunShape ==
    (PredictDone /\ ~Fails(0) /\ ~Fails(1)) =>
        /\ Len(vectors) = 2 /\ Len(results) = 2
        /\ \A n \in 1..2 :
              /\ Len(vectors[n]) = 9
              /\ \A j \in 1..8 : vectors[n][j] = mix[ClaimRanges[j][1]]
              /\ vectors[n][9] = n - 1
              /\ results[n] = ClaimRow(n)
        /\ results[1][1] = "10 min" /\ results[2][1] = "30 min"

\* a predict run without failure has ended for a mix whose nanoclay and
\* gypsum values differ
WitRunShape ==
    PredictDone /\ Len(results) = 2 /\ mix["NC (%)"] # mix["GYP (%)"]

\* C5: after the range check each field has no entry in out_of_range when
\* its value is at or between its bounds and exactly one entry, with the
\* value and the bounds, when it is outside; the list is empty, and the
\* success message shown, exactly when all eight fields are within bounds.
RangeCheck ==
    pc = "gate" =>
        /\ \A n \in 1..8 :
              LET entries == {e \in 1..Len(page.out_of_range) :
                                page.out_of_range[e].param = ClaimRanges[n][1]}
              IN  /\ Cardinality(entries) = IF Within(n) THEN 0 ELSE 1
                  /\ \A e \in entries :
                        /\ page.out_of_range[e].val = mix[ClaimRanges[n][1]]
                        /\ page.out_of_range[e].low = ClaimRanges[n][2]
                        /\ page.out_of_range[e].high = ClaimRanges[n][3]
        /\ page.out_of_range = <<>> <=> \A n \in 1..8 : Within(n)
        /\ page.ranges = IF \A n \in 1..8 : Within(n) THEN "success" ELSE "warning"

\* the range check has run on OPC at its lower bound, W/B at its upper
\* bound and S/B just above its upper bound, and has one entry
WitRangeCheck ==
    /\ pc = "gate" /\ Len(page.out_of_range) = 1
    /\ mix["OPC (%)"] = 4000 /\ mix["W/B"] = 55 /\ mix["S/B"] = 251

\* C6: with a binder sum of 100 and the three models available, no pass is
\* stopped, whatever is out of range: the range check only chooses between
\* the warning and the success message, the gate draws the button, and a
\* predict run builds both vectors and calls the models.
AdvisoryOnly ==
    (SumIs100 /\ \A m \in Targets : disk[m].present) =>
        /\ ~page.stopped
        /\ Done => page.footer
        /\ PastRanges => page.ranges = IF \A n \in 1..8 : Within(n) THEN "success" ELSE "warning"
        /\ PastGate => page.button
        /\ PredictDone => Len(vectors) = 2 /\ Len(calls) >= 2

\* a predict run has produced rows for a mix with a value out of range
WitAdvisoryOnly ==
    PredictDone /\ page.ranges = "warning" /\ results # <<>>

\* C7: in every pass each of the three loads is attempted, whatever the
\* earlier ones did: once the pass is past the load of an artifact, that
\* artifact has been loaded once per pass so far, its model is the artifact
\* or None, and the page shows one load error for it exactly when it is
\* missing.
IndependentLoading ==
    LET passes == IF Opened THEN 1 + changes + clicks ELSE 0
        position == CASE pc = "load_SYS" -> 0 [] pc = "load_DYS" -> 1
                      [] pc = "load_PV" -> 2 [] pc = "idle" /\ ~Opened -> 0
                      [] OTHER -> 3
    IN  \A n \in 1..3 :
            n <= position =>
                /\ loads[ModelNames[n]] = passes
                /\ model[ModelNames[n]] =
                      IF disk[ModelNames[n]].present THEN disk[ModelNames[n]] ELSE None
                /\ Count(page.errors, Error("load", Path(ModelNames[n]))) =
                      IF disk[ModelNames[n]].present THEN 0 ELSE 1

\* the pass has loaded PV after the load of SYS has failed
WitIndependentLoading ==
    pc = "binder" /\ ~disk["SYS"].present /\ Truthy(model["PV"])

\* C8: each model artifact is loaded exactly once, at process start, and
\* never again.
LoadedOnce == \A m \in Targets : loads[m] <= 1

\* C9: two predict runs on the same mix have built the same vectors and
\* produced the same rows in the same order, and no statement of a pass
\* changes the mix.
Idempotence ==
    /\ [](\A a, b \in 1..Len(runs) :
             runs[a].mix = runs[b].mix =>
                 /\ runs[a].vectors = runs[b].vectors
                 /\ runs[a].results = runs[b].results)
    /\ [][pc # "idle" => mix' = mix]_vars

\* two predict runs on the same mix have ended, with rows
WitIdempotence ==
    Len(runs) = 2 /\ runs[1].mix = runs[2].mix /\ runs[1].results # <<>>

\* C10: a pass the button has not started builds no vector, calls no
\* model and presents nothing; a pass it has started builds at most the two
\* vectors, calls each model at most once per time indicator, produces at
\* most two rows, and when it has ended has built both vectors and
\* presented one table with two charts if there is a row, nothing if not.
OnlyOnAction ==
    /\ ~predict_btn =>
          /\ vectors = <<>> /\ calls = <<>> /\ results = <<>>
          /\ page.tables = 0 /\ page.charts = 0
    /\ predict_btn =>
          /\ Len(vectors) <= 2 /\ Len(results) <= 2
          /\ \A m \in Targets : \A t \in {0, 1} : Count(calls, <<m, t>>) <= 1
          /\ page.tables <= 1 /\ page.charts <= 2
    /\ PredictDone =>
          /\ Len(vectors) = 2
          /\ page.tables = IF results # <<>> THEN 1 ELSE 0
          /\ page.charts = IF results # <<>> THEN 2 ELSE 0

\* a predict run has ended after calling each model on each indicator
WitOnlyOnAction ==
    PredictDone /\ Len(calls) = 6 /\ page.tables = 1

====
